---- MODULE Spec2Model ----
(***************************************************************************)
(* Host-software reconciliation of the mysql datastore: SaveHostSoftware,  *)
(* LoadHostSoftware and their helpers, run by several hosts against one    *)
(* relational store (tables software and host_software).                   *)
(*                                                                         *)
(* Strings are sequences of bytes, as len(str) and str[:length] take them; *)
(* SEP stands for the separator "\u0000" of softwareToUniqueString.        *)
(* Every store statement is one step.                                      *)
(* A transaction buffers its writes (wCat, wDel, wIns) until Commit; reads *)
(* inside a transaction see the snapshot taken by its first SELECT plus    *)
(* the transaction's own writes.                                           *)
(*                                                                         *)
(* The pure helpers (nothingChanged, the key codec) are also run on their  *)
(* own, on arguments that no reconciliation produces: PureSpec.            *)
(***************************************************************************)
EXTENDS Integers, Sequences, FiniteSets, TLC

VARIABLES
    catalog,     \* committed rows of table software: [ID, Name, Version, Source]
    membership,  \* committed rows of table host_software: <<host_id, software_id>>
    host,        \* host aggregate: [Software: sequence of records, Modified: BOOLEAN]
    tx,          \* per host: the SaveHostSoftware call in flight (or the last one)
    call,        \* a call of a pure helper: its name and its arguments
    ret          \* what the pure helper returned

vars == <<catalog, membership, host, tx, call, ret>>

----------------------------------------------------------------------------
\* Bound of the model.
MaxLen == 2        \* longest staged software collection

\* Program constants.
\* The attempt count of withRetryTxx is fixed; 2 gives one retry.
MaxAttempts == 2
maxSoftwareNameLen == 255
maxSoftwareVersionLen == 255
maxSoftwareSourceLen == 64

Hosts == {1, 2}

SEP == "NUL"

Sw(n, v, s) == [ID |-> 0, Name |-> n, Version |-> v, Source |-> s]

SwA == Sw(<<"a">>, <<"1">>, <<"p">>)
SwB == Sw(<<"b">>, <<"2">>, <<"n">>)
\* an unsanitized record: its source holds the separator
SwZ == Sw(<<"a">>, <<"1">>, <<"p", SEP, "x">>)

Inventory == {SwA, SwB, SwZ}

Order(s) == IF s = SwA THEN 1 ELSE IF s = SwB THEN 2 ELSE 3

\* what the inventory collaborator may stage: duplicate-free collections;
\* they are unordered, so one order of each is enough
Collections ==
    {c \in UNION {[1..n -> Inventory] : n \in 0..MaxLen} :
        \A i, j \in DOMAIN c : i < j => Order(c[i]) < Order(c[j])}

----------------------------------------------------------------------------
\* Key codec and set helpers (pure).

\* cuts a string that is exactly as long as the limit
truncateString_offByOne(str, length) ==
    IF Len(str) >= length THEN SubSeq(str, 1, length - 1) ELSE str

truncateString(str, length) ==
    IF Len(str) > length THEN SubSeq(str, 1, length) ELSE str

softwareToUniqueString(s) ==
    s.Name \o <<SEP>> \o s.Version \o <<SEP>> \o s.Source

\* strings.Split(s, "\u0000"): the pieces between the separators, one more
\* than there are separators (written without recursion: keys of several
\* hundred characters are split)
Split(s) ==
    LET seps == {i \in DOMAIN s : s[i] = SEP}
        n == Cardinality(seps)
        pos(k) == IF k = 0 THEN 0
                  ELSE IF k = n + 1 THEN Len(s) + 1
                  ELSE CHOOSE i \in seps : Cardinality({j \in seps : j <= i}) = k
    IN  [k \in 1..(n + 1) |-> SubSeq(s, pos(k - 1) + 1, pos(k) - 1)]

uniqueStringToSoftware(s) ==
    LET parts == Split(s)
    IN  [ID |-> 0,
         Name |-> truncateString(parts[1], maxSoftwareNameLen),
         Version |-> truncateString(parts[2], maxSoftwareVersionLen),
         Source |-> truncateString(parts[3], maxSoftwareSourceLen)]

softwareSliceToSet(softwares) ==
    {softwareToUniqueString(softwares[i]) : i \in DOMAIN softwares}

\* later elements of the slice overwrite earlier ones with the same key
softwareSliceToIdMap(softwareSlice) ==
    [k \in softwareSliceToSet(softwareSlice) |->
        LET idx == {i \in DOMAIN softwareSlice :
                        softwareToUniqueString(softwareSlice[i]) = k}
            last == CHOOSE i \in idx : \A j \in idx : j <= i
        IN  softwareSlice[last].ID]

nothingChanged_lenOnly(current, incoming) ==
    Len(current) = Len(incoming)

\* without the comparison of the lengths
nothingChanged_noLenCheck(current, incoming) ==
    \A i \in DOMAIN incoming :
        softwareToUniqueString(incoming[i]) \in softwareSliceToSet(current)

nothingChanged(current, incoming) ==
    IF Len(current) # Len(incoming) THEN FALSE
    ELSE \A i \in DOMAIN incoming :
            softwareToUniqueString(incoming[i]) \in softwareSliceToSet(current)

----------------------------------------------------------------------------
\* The store.

Triple(r) == <<r.Name, r.Version, r.Source>>

Row(id, s) == [ID |-> id, Name |-> s.Name, Version |-> s.Version, Source |-> s.Source]

MembershipOf(h) == {m \in membership : m[1] = h}

\* SELECT * FROM software WHERE id IN (SELECT software_id FROM host_software WHERE host_id = ?)
hostSoftwareFromHostID(h) == {r \in catalog : <<h, r.ID>> \in membership}

\* the orders in which a result set may come back
Perms(S) ==
    {f \in [1..Cardinality(S) -> S] : \A x \in S : \E i \in DOMAIN f : f[i] = x}

\* no pure helper is being run
NoCall == [op |-> "none"]

IdleTx ==
    [pc |-> "idle", ok |-> FALSE, attempts |-> 0, pre |-> {},
     snap |-> {}, current |-> <<>>, incoming |-> {}, todo |-> {}, sel |-> <<>>,
     inserts |-> {}, wCat |-> {}, wDel |-> {}, wIns |-> {}, log |-> <<>>]

InTx(h) == tx[h].pc # "idle"

Init ==
    /\ catalog = {}
    /\ membership = {}
    /\ host = [h \in Hosts |-> [Software |-> <<>>, Modified |-> FALSE]]
    /\ tx = [h \in Hosts |-> IdleTx]
    /\ call = NoCall
    /\ ret = NoCall

\* The inventory collaborator stages a collection and marks the aggregate dirty.
Stage(h, c) ==
    /\ tx[h].pc = "idle"
    /\ host' = [host EXCEPT ![h] = [Software |-> c, Modified |-> TRUE]]
    /\ tx' = [tx EXCEPT ![h] = IdleTx]
    /\ UNCHANGED <<catalog, membership>>

----------------------------------------------------------------------------
\* withRetryTxx: begin, rollback, retry, commit.

\* the record of a call that begins (or re-executes) its transaction body
BeginTx(n, pre) == [IdleTx EXCEPT !.pc = "body", !.attempts = n, !.pre = pre]

retryable_unbounded(kind, attempts) == kind = "transient"

\* a transient conflict is retried while attempts remain
retryable(kind, attempts) == kind = "transient" /\ attempts < MaxAttempts

ModifiedAfterSave_always(h, err) == FALSE

\* Modified after the transaction function returned err
ModifiedAfterSave(h, err) == IF err = "ok" THEN FALSE ELSE host[h].Modified

\* the body failed: the transaction is rolled back; SaveHostSoftware either
\* re-executes the body or returns the wrapped error
Rollback(h, kind) ==
    /\ tx' = [tx EXCEPT ![h] =
                IF retryable(kind, tx[h].attempts)
                THEN BeginTx(tx[h].attempts + 1, tx[h].pre)
                ELSE IdleTx]
    /\ host' = [host EXCEPT ![h].Modified =
                IF retryable(kind, tx[h].attempts) THEN host[h].Modified
                ELSE ModifiedAfterSave(h, kind)]
    /\ UNCHANGED <<catalog, membership>>

\* any statement of the body, or the commit, may fail in the store
Fail(h, kind) ==
    /\ InTx(h)
    /\ Rollback(h, kind)

Commit(h) ==
    /\ tx[h].pc = "commit"
    /\ membership' = (membership \ tx[h].wDel) \cup tx[h].wIns
    /\ catalog' = catalog \cup tx[h].wCat
    /\ tx' = [tx EXCEPT ![h] = [IdleTx EXCEPT !.ok = TRUE]]
    /\ host' = [host EXCEPT ![h].Modified = ModifiedAfterSave(h, "ok")]

----------------------------------------------------------------------------
\* SaveHostSoftware and the transaction body.

unmodified_never(h) == FALSE

unmodified(h) == ~host[h].Modified

SaveHostSoftware(h) ==
    /\ tx[h].pc = "idle"
    /\ IF unmodified(h)
       THEN UNCHANGED tx
       ELSE tx' = [tx EXCEPT ![h] = BeginTx(1, MembershipOf(h))]
    /\ UNCHANGED <<catalog, membership, host>>

emptyIncoming_never(h) == FALSE

emptyIncoming(h) == Len(host[h].Software) = 0

\* the statement without its WHERE host_id = ?
clearJoinTable_allHosts(h) ==
    /\ tx' = [tx EXCEPT ![h].wDel = membership,
                        ![h].pc = "commit",
                        ![h].log = Append(@, "clear")]
    /\ UNCHANGED <<catalog, membership, host>>

\* the same statement run on the connection pool instead of the transaction
clearJoinTable_autocommit(h) ==
    /\ tx' = [tx EXCEPT ![h].pc = "commit", ![h].log = Append(@, "clear")]
    /\ membership' = membership \ MembershipOf(h)
    /\ UNCHANGED <<catalog, host>>


\* DELETE FROM host_software WHERE host_id = ?
clearJoinTable(h) ==
    /\ tx' = [tx EXCEPT ![h].wDel = MembershipOf(h),
                        ![h].pc = "commit",
                        ![h].log = Append(@, "clear")]
    /\ UNCHANGED <<catalog, membership, host>>

\* applyChangesForNewSoftware up to the differ
loadAndDiff(h) ==
    \E stored \in Perms(hostSoftwareFromHostID(h)) :
        /\ tx' = [tx EXCEPT ![h] =
                    IF nothingChanged(stored, host[h].Software)
                    THEN [@ EXCEPT !.pc = "commit", !.snap = catalog,
                                   !.log = Append(@, "load")]
                    ELSE [@ EXCEPT !.pc = "delete", !.snap = catalog,
                                   !.current = softwareSliceToIdMap(stored),
                                   !.incoming = softwareSliceToSet(host[h].Software),
                                   !.log = Append(@, "load")]]
        /\ UNCHANGED <<catalog, membership, host>>

TxBody(h) ==
    /\ tx[h].pc = "body"
    /\ IF emptyIncoming(h) THEN clearJoinTable(h) ELSE loadAndDiff(h)

----------------------------------------------------------------------------
\* Membership writer: delete pass.

\* the identifiers of all the current keys
deletesHostSoftware_all(currentIdmap, incomingBitmap) ==
    {currentIdmap[k] : k \in DOMAIN currentIdmap}

\* identifiers of the current keys that are absent from the incoming keys
deletesHostSoftware(currentIdmap, incomingBitmap) ==
    {currentIdmap[k] : k \in (DOMAIN currentIdmap) \ incomingBitmap}

deletesSoftware_prune(ids) == ids

\* catalog rows the delete pass removes: none ("TODO: delete from software
\* if no host has it")
deletesSoftware(ids) == {}

\* DELETE FROM host_software WHERE host_id = ? AND software_id IN (...)
deleteUninstalledHostSoftware(h) ==
    LET ids == deletesHostSoftware(tx[h].current, tx[h].incoming)
        next == [tx[h] EXCEPT !.pc = "insert",
                              !.todo = tx[h].incoming \ DOMAIN tx[h].current]
    IN  /\ tx[h].pc = "delete"
        /\ tx' = [tx EXCEPT ![h] =
                    IF ids = {} THEN next
                    ELSE [next EXCEPT !.wDel = {m \in MembershipOf(h) : m[2] \in ids},
                                      !.log = Append(@, "delete")]]
        /\ catalog' = {r \in catalog : r.ID \notin deletesSoftware(ids)}
        /\ UNCHANGED <<membership, host>>

----------------------------------------------------------------------------
\* Catalog resolver: getOrGenerateSoftwareId, one statement per step.

\* rows a SELECT inside the transaction of h sees
Visible(h) == tx[h].snap \cup tx[h].wCat

\* SELECT id FROM software WHERE name = ? and version = ? and source = ?
resolveSelect(h, k) ==
    LET s == uniqueStringToSoftware(k)
        existingId == {r.ID : r \in {x \in Visible(h) : Triple(x) = Triple(s)}}
    IN  /\ tx[h].pc = "insert"
        /\ k \in tx[h].todo
        /\ IF existingId # {}
           THEN \E id \in existingId :
                    tx' = [tx EXCEPT ![h].inserts = @ \cup {<<k, id>>},
                                     ![h].todo = @ \ {k},
                                     ![h].log = Append(@, "select")]
           ELSE tx' = [tx EXCEPT ![h].pc = "resolve", ![h].sel = k,
                                 ![h].log = Append(@, "select")]
        /\ UNCHANGED <<catalog, membership, host>>

\* another transaction holds an uncommitted row with this triple: the insert
\* waits for its lock
Blocked(h, s) ==
    \E o \in Hosts \ {h} : \E r \in tx[o].wCat : Triple(r) = Triple(s)

Conflict_none(h, s) == FALSE

\* the unique key (name, version, source) already holds this triple
Conflict(h, s) ==
    \E r \in catalog \cup tx[h].wCat : Triple(r) = Triple(s)

\* software.id AUTO_INCREMENT: an identifier that no row holds, committed or
\* not.  Identifiers are opaque to the program, so the least free one stands
\* for whichever the store's counter hands out.
AutoIncrement ==
    LET used == {r.ID : r \in catalog \cup UNION {tx[o].wCat : o \in Hosts}}
    IN  CHOOSE id \in 1..(Cardinality(used) + 1) :
            id \notin used /\ \A j \in 1..(id - 1) : j \in used

\* result.LastInsertId() of an INSERT IGNORE that wrote no row
IgnoredInsertId == 0

\* INSERT IGNORE INTO software (name, version, source) VALUES (?, ?, ?)
\* followed by result.LastInsertId()
resolveInsert(h) ==
    LET k == tx[h].sel
        s == uniqueStringToSoftware(k)
    IN  /\ tx[h].pc = "resolve"
        /\ ~Blocked(h, s)
        /\ IF Conflict(h, s)
           THEN tx' = [tx EXCEPT ![h].inserts = @ \cup {<<k, IgnoredInsertId>>},
                                 ![h].todo = @ \ {k},
                                 ![h].pc = "insert",
                                 ![h].log = Append(@, "insert_sw")]
           ELSE tx' = [tx EXCEPT ![h].inserts = @ \cup {<<k, AutoIncrement>>},
                                 ![h].wCat = @ \cup {Row(AutoIncrement, s)},
                                 ![h].todo = @ \ {k},
                                 ![h].pc = "insert",
                                 ![h].log = Append(@, "insert_sw")]
        /\ UNCHANGED <<catalog, membership, host>>

----------------------------------------------------------------------------
\* Membership writer: insert pass.

ForeignKeyOk_none(h, inserts) == TRUE

PrimaryKeyOk_none(h, inserts) == TRUE

\* PRIMARY KEY (host_id, software_id): no pair twice in the batch, none that
\* the host already has
PrimaryKeyOk(h, inserts) ==
    /\ \A p, q \in inserts : p[2] = q[2] => p = q
    /\ \A p \in inserts :
          <<h, p[2]>> \notin (MembershipOf(h) \ tx[h].wDel) \cup tx[h].wIns

\* software_id references software.id
ForeignKeyOk(h, inserts) ==
    \A p \in inserts : \E r \in catalog \cup tx[h].wCat : r.ID = p[2]

\* INSERT INTO host_software (host_id, software_id) VALUES (?,?),...
insertNewInstalledHostSoftware(h) ==
    /\ tx[h].pc = "insert"
    /\ tx[h].todo = {}
    /\ IF tx[h].inserts = {}
       THEN /\ tx' = [tx EXCEPT ![h].pc = "commit"]
            /\ UNCHANGED host
       ELSE IF PrimaryKeyOk(h, tx[h].inserts) /\ ForeignKeyOk(h, tx[h].inserts)
       THEN /\ tx' = [tx EXCEPT ![h].wIns = {<<h, p[2]>> : p \in tx[h].inserts},
                                ![h].pc = "commit",
                                ![h].log = Append(@, "insert_hs")]
            /\ UNCHANGED host
       ELSE /\ tx' = [tx EXCEPT ![h] = IdleTx]
            /\ host' = [host EXCEPT ![h].Modified = ModifiedAfterSave(h, "persistent")]
    /\ UNCHANGED <<catalog, membership>>

----------------------------------------------------------------------------
\* LoadHostSoftware: resets the aggregate, then reads outside any transaction.

\* without the reset of HostSoftware
LoadHostSoftware_noReset(h) ==
    /\ tx[h].pc = "idle"
    /\ \/ \E software \in Perms(hostSoftwareFromHostID(h)) :
            host' = [host EXCEPT ![h].Software = software]
       \/ UNCHANGED host
    /\ tx' = [tx EXCEPT ![h] = IdleTx]
    /\ UNCHANGED <<catalog, membership>>

LoadHostSoftware(h) ==
    /\ tx[h].pc = "idle"
    /\ \/ \E software \in Perms(hostSoftwareFromHostID(h)) :
            host' = [host EXCEPT ![h] = [Software |-> software, Modified |-> FALSE]]
       \/ host' = [host EXCEPT ![h] = [Software |-> <<>>, Modified |-> FALSE]]
    /\ tx' = [tx EXCEPT ![h] = IdleTx]
    /\ UNCHANGED <<catalog, membership>>

----------------------------------------------------------------------------
Next ==
    \E h \in Hosts :
        \/ (\E c \in Collections : Stage(h, c)) /\ UNCHANGED <<call, ret>>
        \/ SaveHostSoftware(h) /\ UNCHANGED <<call, ret>>
        \/ TxBody(h) /\ UNCHANGED <<call, ret>>
        \/ deleteUninstalledHostSoftware(h) /\ UNCHANGED <<call, ret>>
        \/ (\E k \in tx[h].todo : resolveSelect(h, k)) /\ UNCHANGED <<call, ret>>
        \/ resolveInsert(h) /\ UNCHANGED <<call, ret>>
        \/ insertNewInstalledHostSoftware(h) /\ UNCHANGED <<call, ret>>
        \/ Commit(h) /\ UNCHANGED <<call, ret>>
        \/ (\E kind \in {"transient", "persistent"} : Fail(h, kind)) /\ UNCHANGED <<call, ret>>
        \/ LoadHostSoftware(h) /\ UNCHANGED <<call, ret>>

Spec == Init /\ [][Next]_vars

\* a step of the call of h that is in flight
TxStep(h) ==
    \/ TxBody(h)
    \/ deleteUninstalledHostSoftware(h)
    \/ \E k \in tx[h].todo : resolveSelect(h, k)
    \/ resolveInsert(h)
    \/ insertNewInstalledHostSoftware(h)
    \/ Commit(h)
    \/ \E kind \in {"transient", "persistent"} : Fail(h, kind)

----------------------------------------------------------------------------
\* Vocabulary of the properties.

Positions(software) == DOMAIN software

Triples(software) == {Triple(software[i]) : i \in Positions(software)}

\* what load_host_software(h) returns, compared by (name, version, source)
LoadedTriples(h) == {Triple(r) : r \in hostSoftwareFromHostID(h)}

DuplicateFree(software) ==
    \A i, j \in Positions(software) :
        Triple(software[i]) = Triple(software[j]) => i = j

WithinLimits(s) ==
    /\ Len(s.Name) <= maxSoftwareNameLen
    /\ Len(s.Version) <= maxSoftwareVersionLen
    /\ Len(s.Source) <= maxSoftwareSourceLen

HasSeparator(str) == \E i \in DOMAIN str : str[i] = SEP

Sanitized(s) ==
    ~HasSeparator(s.Name) /\ ~HasSeparator(s.Version) /\ ~HasSeparator(s.Source)

\* the last SaveHostSoftware call of h ran its transaction and returned nil,
\* and nothing was staged or loaded since
Saved(h) == tx[h].pc = "idle" /\ tx[h].ok

\* this step is the return of the call of h, with nil or with an error
ReturnsOk(h) == InTx(h) /\ tx'[h].pc = "idle" /\ tx'[h].ok
ReturnsError(h) == InTx(h) /\ tx'[h].pc = "idle" /\ ~tx'[h].ok

----------------------------------------------------------------------------
\* C1 (as stated): after a successful save of a duplicate-free collection
\* whose fields are within the length limits, the triples loaded for the
\* host are exactly the incoming triples.
C1_AsStated ==
    \A h \in Hosts :
        ( /\ Saved(h)
          /\ DuplicateFree(host[h].Software)
          /\ \A i \in Positions(host[h].Software) : WithinLimits(host[h].Software[i]) )
        => LoadedTriples(h) = Triples(host[h].Software)

\* C1 (amended): the same, for collections none of whose fields holds the
\* separator of the key codec.
C1_SavedMatchesIncoming ==
    \A h \in Hosts :
        ( /\ Saved(h)
          /\ DuplicateFree(host[h].Software)
          /\ \A i \in Positions(host[h].Software) :
                WithinLimits(host[h].Software[i]) /\ Sanitized(host[h].Software[i]) )
        => LoadedTriples(h) = Triples(host[h].Software)

\* a host saved two records while the other host holds one of them too
C1_Witness ==
    \E h \in Hosts : \E o \in Hosts \ {h} :
        /\ Saved(h)
        /\ host[h].Software = <<SwA, SwB>>
        /\ LoadedTriples(h) = {Triple(SwA), Triple(SwB)}
        /\ Triple(SwA) \in LoadedTriples(o)

\* C2: every identifier a resolver has returned for a triple is the
\* identifier of the one catalog row of that triple, so that concurrent
\* first-time resolutions of one triple agree.
C2_ResolversAgree ==
    \A h \in Hosts : \A p \in tx[h].inserts :
        LET t == Triple(uniqueStringToSoftware(p[1]))
            rows == {r \in catalog \cup tx[h].wCat : Triple(r) = t}
        IN  /\ Cardinality(rows) = 1
            /\ \A r \in rows : r.ID = p[2]

\* C3: no two catalog rows share a triple, and two hosts that hold the same
\* triple reference the same identifier.
C3_CatalogUnique ==
    /\ \A r, q \in catalog : Triple(r) = Triple(q) => r = q
    /\ \A m, n \in membership : \A r, q \in catalog :
          (r.ID = m[2] /\ q.ID = n[2] /\ Triple(r) = Triple(q)) => m[2] = n[2]

\* both hosts hold both triples
C3_Witness ==
    /\ Cardinality(catalog) = 2
    /\ \A h \in Hosts : LoadedTriples(h) = {Triple(SwA), Triple(SwB)}

\* C4: every membership row references an existing catalog row.
C4_MembershipReferencesCatalog ==
    \A m \in membership : \E r \in catalog : r.ID = m[2]

\* a resolver returned the identifier of an ignored insert, and still every
\* committed membership row has its catalog row
C4_Witness ==
    /\ membership # {}
    /\ \E h \in Hosts : \E p \in tx[h].inserts : p[2] = IgnoredInsertId

\* C5: the writes of a call become visible together, at its commit, or not
\* at all; a call that returns an error leaves the membership rows of its
\* host as they were when it began.
C5_Atomic ==
    [][\A h \in Hosts :
          /\ ReturnsOk(h) =>
                /\ MembershipOf(h)' = (MembershipOf(h) \ tx[h].wDel) \cup tx[h].wIns
                /\ catalog' = catalog \cup tx[h].wCat
          /\ ~ReturnsOk(h) =>
                /\ MembershipOf(h)' = MembershipOf(h)
                /\ tx[h].wCat \cap catalog' = {}
          /\ ReturnsError(h) => MembershipOf(h)' = tx[h].pre
      ]_vars

\* a call is about to commit a delete batch, an insert batch and a catalog row
C5_Witness ==
    \E h \in Hosts :
        /\ tx[h].pc = "commit"
        /\ tx[h].wDel # {} /\ tx[h].wIns # {} /\ tx[h].wCat # {}

\* C6: Modified is false after a call that returned nil, true after a call
\* that returned an error, and unchanged while the call is in flight.
C6_ModifiedClearedOnCommitOnly ==
    [][\A h \in Hosts :
          /\ ReturnsOk(h) => ~host'[h].Modified
          /\ ReturnsError(h) => host'[h].Modified
          /\ tx'[h].pc # "idle" => host'[h].Modified = host[h].Modified
      ]_vars

\* one host has saved, the other is in its last attempt
C6_Witness ==
    \E h \in Hosts : \E o \in Hosts \ {h} :
        /\ Saved(h) /\ ~host[h].Modified /\ host[h].Software # <<>>
        /\ InTx(o) /\ tx[o].attempts = MaxAttempts /\ host[o].Modified

WriteStatements == {"clear", "delete", "insert_sw", "insert_hs"}

\* this step is a statement of the call of h
Issues(h) == Len(tx'[h].log) = Len(tx[h].log) + 1

IssuesWrite(h) ==
    Issues(h) /\ tx'[h].log[Len(tx'[h].log)] \in WriteStatements

\* the persisted set of h equals the staged collection
Unchanged(h) == LoadedTriples(h) = Triples(host[h].Software)

\* C7 (as stated): a call on a collection that is not modified, or that is
\* staged again while the persisted set equals it, issues no write and
\* leaves Modified false.
C7_AsStated ==
    [][\A h \in Hosts :
          /\ ~host[h].Modified => ~Issues(h)
          /\ Unchanged(h) => ~IssuesWrite(h)
          /\ ReturnsOk(h) => ~host'[h].Modified
      ]_vars

\* C7 (amended): the same, except that a call on an empty collection that
\* was staged again issues the deletion of the membership rows of the host,
\* which removes no row.
C7_Idempotent ==
    [][\A h \in Hosts :
          /\ ~host[h].Modified => ~Issues(h)
          /\ (Unchanged(h) /\ host[h].Software # <<>>) => ~IssuesWrite(h)
          /\ (Unchanged(h) /\ host[h].Software = <<>> /\ IssuesWrite(h)) =>
                /\ tx'[h].log = <<"clear">>
                /\ tx'[h].wDel = {} /\ tx'[h].wIns = {} /\ tx'[h].wCat = {}
          /\ ReturnsOk(h) => ~host'[h].Modified
      ]_vars

\* a call on a collection that equals the persisted set is about to commit
\* after its load alone
C7_Witness ==
    \E h \in Hosts :
        /\ tx[h].pc = "commit"
        /\ host[h].Software = <<SwA, SwB>>
        /\ Unchanged(h)
        /\ tx[h].log = <<"load">>

\* statements the current attempt of h can still issue, commit included
Rank(h) ==
    CASE tx[h].pc = "body" -> 4 + 2 * Len(host[h].Software)
      [] tx[h].pc = "delete" -> 3 + 2 * Cardinality(tx[h].incoming)
      [] tx[h].pc = "insert" -> 2 + 2 * Cardinality(tx[h].todo)
      [] tx[h].pc = "resolve" -> 1 + 2 * Cardinality(tx[h].todo)
      [] tx[h].pc = "commit" -> 1
      [] OTHER -> 0

\* steps the call of h can still take, over all the attempts it has left
Variant(h) == (MaxAttempts - tx[h].attempts) * (2 * MaxLen + 4) + Rank(h)

\* C8: a call makes at most MaxAttempts attempts; a retry re-executes the
\* whole body with nothing kept of the failed attempt; each step of a call
\* either returns (with nil after a commit, else with an error that leaves
\* Modified set) or brings the call closer to its return, so that no call
\* runs forever.  (A call in flight can always step: Fail asks for no more
\* than InTx.)
C8_Terminates ==
    /\ [](\A h \in Hosts :
            /\ tx[h].attempts <= MaxAttempts
            /\ InTx(h) => Variant(h) > 0)
    /\ [][\A h \in Hosts :
            /\ tx'[h].attempts > tx[h].attempts =>
                  tx'[h] = BeginTx(tx[h].attempts + 1, MembershipOf(h))
            /\ (InTx(h) /\ tx'[h] # tx[h]) =>
                  \/ ReturnsOk(h) /\ tx[h].pc = "commit"
                  \/ ReturnsError(h) /\ host'[h].Modified
                  \/ InTx(h)' /\ Variant(h)' < Variant(h)
         ]_vars

\* a call is in its last attempt
C8_Witness ==
    \E h \in Hosts : tx[h].attempts = MaxAttempts /\ tx[h].pc = "resolve"

\* C9: with an empty incoming collection the body is the one deletion of
\* the membership rows of the host: no load, no differ, no resolver, no
\* catalog write; after the commit the host has no membership row.
C9_EmptyClearsOnly ==
    /\ [](\A h \in Hosts :
            (InTx(h) /\ host[h].Software = <<>>) =>
                \/ tx[h].pc = "body" /\ tx[h].log = <<>>
                \/ /\ tx[h].pc = "commit"
                   /\ tx[h].log = <<"clear">>
                   /\ tx[h].wDel = MembershipOf(h)
                   /\ tx[h].wIns = {} /\ tx[h].wCat = {} /\ tx[h].inserts = {})
    /\ [][\A h \in Hosts :
            (ReturnsOk(h) /\ host[h].Software = <<>>) =>
                MembershipOf(h)' = {} /\ catalog' = catalog
         ]_vars

\* the one deletion has run for a host that holds two rows
C9_Witness ==
    \E h \in Hosts :
        /\ tx[h].pc = "commit"
        /\ host[h].Software = <<>>
        /\ Cardinality(MembershipOf(h)) = 2
        /\ tx[h].log = <<"clear">>

\* C10: no step removes or changes a committed catalog row.
C10_CatalogOnlyGrows ==
    [][catalog \subseteq catalog']_vars

\* a catalog row outlives the last membership row that referenced it
C10_Witness ==
    \E r \in catalog :
        /\ \A m \in membership : m[2] # r.ID
        /\ \A h \in Hosts : ~InTx(h)

\* the (host_id, software_id) pairs of the batch insertion, one per resolved key
Batch(h) == [p \in tx[h].inserts |-> <<h, p[2]>>]

\* membership rows of h that the transaction of h has not deleted
Remaining(h) == MembershipOf(h) \ tx[h].wDel

\* C11: a batch insertion that a call has executed, and is about to commit,
\* holds no (host_id, software_id) pair twice and none that is still
\* persisted for the host; host_software being a set of pairs, the committed
\* table then has at most one row for each pair.
C11_NoDuplicateMembership ==
    \A h \in Hosts :
        (tx[h].pc = "commit" /\ tx[h].inserts # {}) =>
            /\ \A p, q \in tx[h].inserts : Batch(h)[p] = Batch(h)[q] => p = q
            /\ \A p \in tx[h].inserts : Batch(h)[p] \notin Remaining(h)
            /\ tx[h].wIns = {Batch(h)[p] : p \in tx[h].inserts}

\* a call is about to commit the insertion of a pair that its delete pass
\* removed, while the other host holds the same software
C11_Witness ==
    \E h \in Hosts : \E o \in Hosts \ {h} :
        /\ tx[h].pc = "commit"
        /\ tx[h].wIns # {}
        /\ tx[h].wIns \subseteq tx[h].wDel
        /\ \E m \in MembershipOf(o) : <<h, m[2]>> \in tx[h].wIns

\* h has no call in flight and its aggregate is not modified
CleanIdle(h) == tx[h].pc = "idle" /\ ~host[h].Modified

\* C12: a call on an aggregate that is not modified is a step that changes
\* nothing, the staged collection being what it may; it opens no
\* transaction and issues no statement, so that a transaction is only ever
\* open for a modified aggregate, and from such a state no step gives the
\* host a transaction or changes its membership rows or its aggregate
\* except by staging or loading.
C12_UnmodifiedReturnsImmediately ==
    /\ [](\A h \in Hosts : InTx(h) => host[h].Modified)
    /\ [][\A h \in Hosts :
            /\ (~host[h].Modified /\ SaveHostSoftware(h)) => UNCHANGED vars
            /\ CleanIdle(h) =>
                  /\ tx'[h].pc = "idle" /\ tx'[h].log = <<>>
                  /\ MembershipOf(h)' = MembershipOf(h)
                  /\ \/ host'[h] = host[h]
                     \/ \E c \in Collections : Stage(h, c)
                     \/ LoadHostSoftware(h)
         ]_vars

\* an aggregate that is not modified holds a collection that differs from
\* the persisted set of its host (a record with the separator was saved)
C12_Witness ==
    \E h \in Hosts :
        /\ CleanIdle(h)
        /\ host[h].Software # <<>>
        /\ LoadedTriples(h) # {}
        /\ LoadedTriples(h) # Triples(host[h].Software)

----------------------------------------------------------------------------
\* The pure helpers on their own: nothingChanged and the key codec, applied
\* to arguments drawn from small sets (collections with repeated keys,
\* fields at and over the length limits, fields holding the separator).

\* a string of n characters ch
Chars(n, ch) == [i \in 1..n |-> ch]

\* records the differ may be handed: staged ones and a stored one (the row
\* of SwA, with its identifier)
DifferInventory == Inventory \cup {Row(1, SwA)}

\* collections of up to MaxLen records, in any order, repeats allowed
Slices == UNION {[1..n -> DifferInventory] : n \in 0..MaxLen}

NameFields ==
    {<<>>, <<"a">>, <<"a", SEP>>,
     Chars(maxSoftwareNameLen, "n"), Chars(maxSoftwareNameLen + 1, "n")}

VersionFields ==
    {<<>>, <<"1">>, <<SEP, "1">>,
     Chars(maxSoftwareVersionLen, "v"), Chars(maxSoftwareVersionLen + 1, "v")}

SourceFields ==
    {<<"p">>, <<SEP>>,
     Chars(maxSoftwareSourceLen, "s"), Chars(maxSoftwareSourceLen + 1, "s")}

CodecInputs ==
    {Sw(n, v, s) : n \in NameFields, v \in VersionFields, s \in SourceFields}

PureCalls ==
    {[op |-> "nothingChanged", current |-> a, incoming |-> b] :
        a \in Slices, b \in Slices}
    \cup {[op |-> "codec", s |-> s] : s \in CodecInputs}

PureInit ==
    /\ catalog = {}
    /\ membership = {}
    /\ host = [h \in Hosts |-> [Software |-> <<>>, Modified |-> FALSE]]
    /\ tx = [h \in Hosts |-> IdleTx]
    /\ call \in PureCalls
    /\ ret = NoCall

\* nothingChanged(current, incoming)
CallNothingChanged ==
    /\ call.op = "nothingChanged"
    /\ ret = NoCall
    /\ ret' = [op |-> "nothingChanged",
               value |-> nothingChanged(call.current, call.incoming)]
    /\ UNCHANGED <<catalog, membership, host, tx, call>>

\* nothingChanged(incoming, current): the same call, arguments exchanged
CallNothingChangedSwapped ==
    /\ ret.op = "nothingChanged"
    /\ ret' = [op |-> "swapped",
               value |-> ret.value,
               swapped |-> nothingChanged(call.incoming, call.current)]
    /\ UNCHANGED <<catalog, membership, host, tx, call>>

\* key := softwareToUniqueString(s)
CallEncode ==
    /\ call.op = "codec"
    /\ ret = NoCall
    /\ ret' = [op |-> "encode", key |-> softwareToUniqueString(call.s)]
    /\ UNCHANGED <<catalog, membership, host, tx, call>>

\* uniqueStringToSoftware(key)
CallDecode ==
    /\ ret.op = "encode"
    /\ ret' = [op |-> "decode", key |-> ret.key,
               value |-> uniqueStringToSoftware(ret.key)]
    /\ UNCHANGED <<catalog, membership, host, tx, call>>

PureNext ==
    \/ CallNothingChanged
    \/ CallNothingChangedSwapped
    \/ CallEncode
    \/ CallDecode

PureSpec == PureInit /\ [][PureNext]_vars

----------------------------------------------------------------------------
\* the keys of a collection
Keys(software) == {softwareToUniqueString(software[i]) : i \in Positions(software)}

\* no two positions of the collection hold the same key
DuplicateFreeKeys(software) ==
    \A i, j \in Positions(software) :
        softwareToUniqueString(software[i]) = softwareToUniqueString(software[j])
            => i = j

\* C13: for collections without repeated keys, nothingChanged returns true
\* exactly when the two collections have the same set of keys, and it
\* returns the same with its arguments exchanged.
C13_NothingChangedIsSetEquality ==
    (ret.op = "swapped"
        /\ DuplicateFreeKeys(call.current) /\ DuplicateFreeKeys(call.incoming)) =>
            /\ ret.value = (Keys(call.current) = Keys(call.incoming))
            /\ ret.swapped = ret.value

\* two collections of two keys each, equal as sets, in different orders and
\* with different identifiers, were found unchanged both ways
C13_Witness ==
    /\ ret.op = "swapped"
    /\ call.current = <<SwB, Row(1, SwA)>>
    /\ call.incoming = <<SwA, SwB>>
    /\ ret.value /\ ret.swapped

\* C14: a triple whose fields are within the length limits and hold no
\* separator is what uniqueStringToSoftware returns for the key that
\* softwareToUniqueString made of it.
C14_CodecRoundTrip ==
    (ret.op = "decode" /\ WithinLimits(call.s) /\ Sanitized(call.s)) =>
        Triple(ret.value) = Triple(call.s)

\* a triple whose three fields are exactly as long as their limits went
\* through the codec and came back
C14_Witness ==
    /\ ret.op = "decode"
    /\ Len(call.s.Name) = maxSoftwareNameLen
    /\ Len(call.s.Version) = maxSoftwareVersionLen
    /\ Len(call.s.Source) = maxSoftwareSourceLen
    /\ Len(ret.key) = maxSoftwareNameLen + maxSoftwareVersionLen + maxSoftwareSourceLen + 2
    /\ Triple(ret.value) = Triple(call.s)

\* C15: every identifier that getOrGenerateSoftwareId has returned to the
\* insert pass is the identifier of a catalog row (committed, or written by
\* the same transaction) whose triple is the one it was asked for; in
\* particular, an insert that a concurrent writer of the same triple made
\* ineffective does not yield the value of LastInsertId.
C15_ResolverReturnsRowId ==
    \A h \in Hosts : \A p \in tx[h].inserts :
        \E r \in catalog \cup tx[h].wCat :
            /\ r.ID = p[2]
            /\ Triple(r) = Triple(uniqueStringToSoftware(p[1]))

\* the call of h is on the changed path, its delete pass done
PastDelete(h) == tx[h].pc \in {"insert", "resolve", "commit"} /\ tx[h].incoming # {}

\* rows persisted for h whose key is, or is not, among the staged keys
StoredKept(h) ==
    {r \in hostSoftwareFromHostID(h) :
        softwareToUniqueString(r) \in Keys(host[h].Software)}
StoredGone(h) == hostSoftwareFromHostID(h) \ StoredKept(h)

\* staged keys that no row persisted for h has
StagedNew(h) ==
    Keys(host[h].Software)
        \ {softwareToUniqueString(r) : r \in hostSoftwareFromHostID(h)}

\* how many times the attempt of h has issued statement st
Count(h, st) == Cardinality({i \in DOMAIN tx[h].log : tx[h].log[i] = st})

\* C16: on the changed path, once the delete pass is done the rows it
\* deletes are exactly the rows of the host whose key is not staged, by one
\* statement, or by none when there is no such row; once the insert pass is
\* done the rows it inserts are one for each staged key that no row of the
\* host has, by one statement, or by none when there is no such key; a row
\* whose key is both persisted and staged is in neither batch.
C16_WriterMinimal ==
    \A h \in Hosts :
        /\ PastDelete(h) =>
              /\ tx[h].wDel = {<<h, r.ID>> : r \in StoredGone(h)}
              /\ Count(h, "delete") = IF StoredGone(h) = {} THEN 0 ELSE 1
              /\ Count(h, "clear") = 0
        /\ (PastDelete(h) /\ tx[h].pc = "commit") =>
              /\ Cardinality(tx[h].wIns) = Cardinality(StagedNew(h))
              /\ \A k \in StagedNew(h) :
                    \E p \in tx[h].inserts : p[1] = k /\ <<h, p[2]>> \in tx[h].wIns
              /\ Count(h, "insert_hs") = IF StagedNew(h) = {} THEN 0 ELSE 1
              /\ \A r \in StoredKept(h) : <<h, r.ID>> \notin tx[h].wDel \cup tx[h].wIns

\* both passes have run for a host that keeps one row, loses one and gains one
C16_Witness ==
    \E h \in Hosts :
        /\ PastDelete(h) /\ tx[h].pc = "commit"
        /\ StoredKept(h) # {} /\ StoredGone(h) # {} /\ StagedNew(h) # {}
        /\ Count(h, "delete") = 1 /\ Count(h, "insert_hs") = 1

\* C17: the rows a call of h deletes or inserts all have host_id h, on every
\* path; no step of the call of h, its commit and its failures included,
\* changes the membership rows of another host.
C17_HostScoped ==
    /\ [](\A h \in Hosts : \A m \in tx[h].wDel \cup tx[h].wIns : m[1] = h)
    /\ [][\A h \in Hosts :
            tx'[h] # tx[h] =>
                \A o \in Hosts \ {h} : MembershipOf(o)' = MembershipOf(o)
         ]_vars

\* a call is about to commit the deletion of its host's row for a software
\* that the other host holds too
C17_Witness ==
    \E h \in Hosts : \E o \in Hosts \ {h} :
        /\ tx[h].pc = "commit"
        /\ tx[h].wIns = {}
        /\ \E m \in MembershipOf(o) : <<h, m[2]>> \in tx[h].wDel

\* the collection of h is one that LoadHostSoftware read: staged records
\* carry no identifier, rows of the catalog do
HoldsLoaded(h) ==
    /\ host[h].Software # <<>>
    /\ \A i \in Positions(host[h].Software) : host[h].Software[i].ID # 0

\* C18: LoadHostSoftware leaves the aggregate not modified and with no call
\* in flight; while the aggregate holds a collection that was loaded, it is
\* not modified, the collection is the rows persisted for the host, each
\* once, and no transaction is open for the host: a SaveHostSoftware call
\* made then returns at once.
C18_LoadResets ==
    /\ [](\A h \in Hosts :
            HoldsLoaded(h) =>
                /\ CleanIdle(h)
                /\ {host[h].Software[i] : i \in Positions(host[h].Software)}
                        = hostSoftwareFromHostID(h)
                /\ Len(host[h].Software) = Cardinality(hostSoftwareFromHostID(h)))
    /\ [][\A h \in Hosts :
            /\ LoadHostSoftware(h) => CleanIdle(h)'
            /\ (HoldsLoaded(h) /\ SaveHostSoftware(h)) => UNCHANGED vars
         ]_vars

\* a host holds the two rows it loaded while the other host, which holds one
\* of them too, has a call in flight
C18_Witness ==
    \E h \in Hosts : \E o \in Hosts \ {h} :
        /\ HoldsLoaded(h)
        /\ Len(host[h].Software) = 2
        /\ InTx(o)
        /\ \E m \in MembershipOf(o) : <<h, m[2]>> \in membership

====
